---------------------------- MODULE Spec2Model ----------------------------
(***************************************************************************)
(* vgmusic.py: the lazily cached index of vgmusic.com.                     *)
(*                                                                         *)
(* The repository holds three revisions of the API class:                  *)
(*   "public" : src/vgmusic/public.py   (data dict, _cached set, ETag)     *)
(*   "legacy" : src/vgmusic.py          (same layout, older __getitem__)   *)
(*   "v1"     : src/vgmusic/vgmusic.py  (systems dict, _urls, System)      *)
(* The variable rev says which one a behaviour runs; it never changes.     *)
(*                                                                         *)
(* A Python dict keeps insertion order.  A dict is modelled as a sequence  *)
(* of keys (the order) plus a function from keys to values.  Strings that  *)
(* a regular expression is matched against are sequences of characters.    *)
(***************************************************************************)
EXTENDS Integers, Sequences, FiniteSets, TLC

\* ------------------------------------------------------------------ bounds
\* Threads that may be inside the API at the same time.
NThreads == 2
\* Versions a section page of the site goes through (its ETag is the version).
MaxVer == 2
\* Direct get() calls started in one behaviour.
MaxCalls == 2

Threads == 1..NThreads
Versions == 1..MaxVer

\* ------------------------------------------------------------- the web site
\* The systems the directory page lists, in page order.
Directory == <<"NES", "SNES">>
DirNames == {Directory[i] : i \in 1..Len(Directory)}
\* A name no directory lists.
Unknown == "GB"
Names == DirNames \cup {Unknown}

NoSong == [url |-> 0, title |-> "", size |-> 0, author |-> "", md5 |-> ""]

MkSong(n, title) ==
    [url |-> n, title |-> title, size |-> 100 + n, author |-> "ongyx", md5 |-> "h"]

Header(g) == [k |-> "header", title |-> g, song |-> NoSong]
Blank == [k |-> "blank", title |-> "", song |-> NoSong]
SongRow(n, title) == [k |-> "song", title |-> "", song |-> MkSong(n, title)]

\* The section page of system s at version v: the rows of its table after
\* the column-header rows, and how many column-header rows the table has.
Page(s, v) ==
    IF s = "NES"
    THEN IF v = 1
         THEN [hdr |-> 2,
               rows |-> << Header("Chrono Trigger"), SongRow(1, "Battle"),
                           SongRow(2, "Battle Theme"), Blank,
                           Header("Zelda"), SongRow(3, "Theme") >>]
         ELSE [hdr |-> 2,
               rows |-> << Header("Zelda"), SongRow(3, "Theme"),
                           SongRow(3 + v, "Battle") >>]
    ELSE IF v = 1
         THEN [hdr |-> 2, rows |-> << Header("Mario"), SongRow(4, "Battle") >>]
         ELSE [hdr |-> 1, rows |-> << >>]

\* Characters of the strings regular expressions are matched against.
Chars(str) ==
    CASE str = "NES" ->
            <<"N", "E", "S">>
      [] str = "SNES" ->
            <<"S", "N", "E", "S">>
      [] str = "Battle" ->
            <<"B", "a", "t", "t", "l", "e">>
      [] str = "Battle Theme" ->
            <<"B", "a", "t", "t", "l", "e", " ", "T", "h", "e", "m", "e">>
      [] str = "Theme" ->
            <<"T", "h", "e", "m", "e">>
      [] str = "Chrono Trigger" ->
            <<"C", "h", "r", "o", "n", "o", " ", "T", "r", "i", "g", "g", "e", "r">>
      [] str = "Zelda" ->
            <<"Z", "e", "l", "d", "a">>
      [] str = "Mario" ->
            <<"M", "a", "r", "i", "o">>
      [] str = "ongyx" ->
            <<"o", "n", "g", "y", "x">>
      [] str = "Let's Go!" ->
            <<"L", "e", "t", "'", "s", " ", "G", "o", "!">>
      [] OTHER -> << >>

\* --------------------------------------------------------- ordered mappings
\* games: a dict of game title -> list of songs, as a sequence of entries
\* [title, songs] in insertion order.
NoTitle == "<None>"

HasTitle(games, title) == \E i \in 1..Len(games) : games[i].title = title

\* defaultdict(list): games[title].append(song)
DictAppend(games, title, song) ==
    IF HasTitle(games, title)
    THEN [i \in 1..Len(games) |->
            IF games[i].title = title
            THEN [games[i] EXCEPT !.songs = Append(@, song)]
            ELSE games[i]]
    ELSE Append(games, [title |-> title, songs |-> <<song>>])

\* The row loop shared by the three revisions: a header row sets the current
\* title, a blank row is skipped, any other row is appended to the list of the
\* current title (None before the first header).
RECURSIVE ParseRows(_, _, _, _)
ParseRows(rows, i, title, games) ==
    IF i > Len(rows) THEN games
    ELSE IF rows[i].k = "header" THEN ParseRows(rows, i + 1, rows[i].title, games)
    ELSE IF rows[i].k = "blank" THEN ParseRows(rows, i + 1, title, games)
    ELSE ParseRows(rows, i + 1, title, DictAppend(games, title, rows[i].song))

\* SongTable.parse(): a fresh defaultdict, filled from the rows.
SongTable_parse(page) == ParseRows(page.rows, 1, NoTitle, << >>)

\* SongTable.__init__ raises ParseError when the table has fewer than the two
\* column-header rows it removes.
SongTable_raises(page) == page.hdr < 2

\* ------------------------------------------------------------------- state
VARIABLES
    rev,       \* which revision of the API class runs
    server,    \* the version (= ETag) of the section pages the site serves
    urls,      \* public/legacy: key order of self.data; v1: keys of self._urls
    sysOrder,  \* v1: key order of self.systems
    data,      \* per system: the info dict (public/legacy) or System (v1)
    cached,    \* public/legacy: self._cached
    pc,        \* per thread: "idle", or where it is inside the API
    arg,       \* per thread: the system name it was called with
    mode,      \* per thread: "get" (a caller of __getitem__) or "task" (a pool task)
    resp,      \* per thread: the version of the page its request returned
    fetches,   \* per system: requests issued for its page
    calls,     \* calls of get() and search() started so far
    pool,      \* force_cache_all: the pool's work queue
    fca,       \* force_cache_all: "idle", "running" or "done"
    fcaFrom,   \* force_cache_all: data, _cached and the keys when it was called
    last,      \* the call that ended last and what its caller got
    down,      \* the systems whose page request fails (the site is unreachable)
    errs,      \* force_cache_all: the systems whose task raised
    saved,     \* the document the last call of cache() returned
    bad,       \* the songs (by url) whose download fails
    files,     \* the destination directory: per file name, the file's content
    files0,    \* download: the destination directory when download was called
    batch,     \* download: the songs passed
    dlMax,     \* download: max_workers of the pool
    dlst,      \* download: "idle", "running", "unwinding", "returned", "raised"
    dlq,       \* download: the pool's work queue (indexes into batch)
    dlrun,     \* download: the tasks a worker is running
    dldone,    \* download: the futures that completed, oldest first, not yet
               \* taken by the as_completed loop
    dlfail,    \* download: the futures that hold an exception
    dlreq,     \* download: the songs a request was issued for
    dlskip,    \* download: the songs skipped because their file exists
    dlwrote    \* download: the songs whose bytes were written to their file

\* The state of download().
dvars == << bad, files, files0, batch, dlMax, dlst, dlq, dlrun, dldone, dlfail,
            dlreq, dlskip, dlwrote >>

\* What get(), search() and force_cache_all() leave alone.
xvars == << down, saved, dvars >>

vars == << rev, server, urls, sysOrder, data, cached, pc, arg, mode, resp,
           fetches, calls, pool, fca, fcaFrom, last, errs, xvars >>

SeqSet(q) == {q[i] : i \in 1..Len(q)}

\* The section of a system nobody fetched: public stores None for "titles"
\* (public.py:113), legacy an empty defaultdict (vgmusic.py:193); in v1 the
\* name is no key of self.systems.  dd says whether "titles" is a defaultdict
\* (a dict read from the index file is a plain one); only legacy, which
\* appends to the dict it finds, depends on it, and only legacy tracks it.
Sentinel(r, s) ==
    [st |-> CASE r = "public" -> "none" [] r = "legacy" -> "pop" [] OTHER -> "absent",
     etag |-> 0, version |-> 0, url |-> IF r = "v1" THEN "" ELSE s, titles |-> << >>,
     dd |-> TRUE]

\* The version string the page footer carries.
IndexerVersion(s, v) == 10 + v

\* public.py _cache, lines 148-153: the page is parsed and the info dict
\* updated with titles, _etag and indexer_version; a ParseError stores an empty
\* titles dict and nothing else.
P_Update(info, s, v) ==
    IF SongTable_raises(Page(s, v))
    THEN [info EXCEPT !.st = "pop", !.titles = << >>]
    ELSE [info EXCEPT !.st = "pop", !.titles = SongTable_parse(Page(s, v)),
                      !.etag = v, !.version = IndexerVersion(s, v)]

\* src/vgmusic.py _parse_song_table, lines 101-115: the rows are appended to
\* the titles dict the info already holds; on a plain dict the append under a
\* title that is no key raises KeyError and the loop stops there.
RECURSIVE L_ParseRows(_, _, _, _, _)
L_ParseRows(rows, i, title, games, dd) ==
    IF i > Len(rows) THEN [games |-> games, ok |-> TRUE]
    ELSE IF rows[i].k = "header" THEN L_ParseRows(rows, i + 1, rows[i].title, games, dd)
    ELSE IF rows[i].k = "blank" THEN L_ParseRows(rows, i + 1, title, games, dd)
    ELSE IF ~dd /\ ~HasTitle(games, title) THEN [games |-> games, ok |-> FALSE]
    ELSE L_ParseRows(rows, i + 1, title, DictAppend(games, title, rows[i].song), dd)

\* src/vgmusic.py _parse_song_table, lines 98-99: table.tr is None once the
\* rows run out, and None.decompose() raises AttributeError.
L_NoRows(page) == page.hdr < 2

\* src/vgmusic.py _parse_song_table: what it raises on this page, "" if it
\* returns.
L_Raises(info, s, v) ==
    IF L_NoRows(Page(s, v)) THEN "AttributeError"
    ELSE IF ~L_ParseRows(Page(s, v).rows, 1, NoTitle, info.titles, info.dd).ok
    THEN "KeyError"
    ELSE ""

\* src/vgmusic.py _parse_song_table: _etag and indexer_version are set first
\* (lines 83-89), then the rows are appended; what an exception leaves behind
\* stays in the info dict, which is the one self.data holds.
L_Update(info, s, v) ==
    [info EXCEPT !.titles = IF L_NoRows(Page(s, v)) THEN @
                            ELSE L_ParseRows(Page(s, v).rows, 1, NoTitle, @, info.dd).games,
                 !.etag = v, !.version = IndexerVersion(s, v)]

\* vgmusic/vgmusic.py System.__init__ without a cache: the page is fetched and
\* parsed into a fresh defaultdict.
System_fetch(s, v) ==
    [st |-> "pop", etag |-> 0, version |-> IndexerVersion(s, v), url |-> s,
     titles |-> ParseRows(Page(s, v).rows, 1, NoTitle, << >>), dd |-> TRUE]

\* Sequences over the directory's names without repeats: the key orders a
\* saved document can have.
OrderedSubsets ==
    {q \in UNION {[1..n -> DirNames] : n \in 0..Len(Directory)} :
        \A i, j \in 1..Len(q) : i # j => q[i] # q[j]}

\* public.py __init__, lines 94-114: systems of the directory that the loaded
\* index lacks are added after its keys.
BuildIndex(fileKeys) ==
    fileKeys \o SelectSeq(Directory, LAMBDA n : n \notin SeqSet(fileKeys))

\* public.py __init__, lines 116-126.
P_InitCached(check, newFile, sameDay, keys) ==
    IF check /\ ~newFile /\ sameDay THEN keys ELSE {}

\* last: n counts the calls that ended; op is "get", "task", "search",
\* "regex", "cache", "System", "game", "init", "download", "total_songs",
\* "filename" or "parse"; arg the system name, the criteria, the url, the
\* kind of cache file or the song title; q the query of a regex search, the
\* document passed to System(), or the arguments and the result of a call on
\* one object; out what the caller got ("section", "sentinel", "done",
\* "found", ... or the exception raised); via the branch taken; songs a
\* search's result.
NoCall ==
    [n |-> 0, op |-> "none", arg |-> "", q |-> << >>, out |-> "", via |-> "",
     songs |-> << >>]

ThreadInit ==
    /\ pc = [t \in Threads |-> "idle"]
    /\ arg = [t \in Threads |-> Unknown]
    /\ mode = [t \in Threads |-> "get"]
    /\ resp = [t \in Threads |-> 0]
    /\ fetches = [s \in DirNames |-> 0]
    /\ calls = 0
    /\ pool = << >>
    /\ fca = "idle"
    /\ fcaFrom = << >>
    /\ last = NoCall

\* public.py __init__, lines 71-126, and src/vgmusic.py __init__, lines
\* 163-194: the index file is missing, corrupt (json.load raises
\* JSONDecodeError, which is caught) or was written by an earlier session
\* (each entry a sentinel or the parse of version fileVer of the page); then
\* the systems of the directory are added.
Index(r, file, fileKeys, fileVer, check, sameDay) ==
    LET keys == IF file = "ok" THEN fileKeys ELSE << >>
        written(s) ==
            IF fileVer[s] = 0 THEN Sentinel(r, s)
            ELSE IF r = "public" THEN P_Update(Sentinel(r, s), s, fileVer[s])
            ELSE L_Update(Sentinel(r, s), s, fileVer[s])
        stored(s) ==
            IF s \in SeqSet(keys)
            THEN [written(s) EXCEPT !.dd = (r = "public")]
            ELSE Sentinel(r, s)
    IN [urls |-> BuildIndex(keys),
        data |-> [s \in DirNames |-> stored(s)],
        cached |-> IF r = "public"
                   THEN P_InitCached(check, file # "ok", sameDay, DirNames)
                   ELSE {}]

\* public / legacy: constructed over an index file that is missing, corrupt,
\* or was written by an earlier session.
IndexInit(r) ==
    \E file \in {"missing", "corrupt", "ok"}, fileKeys \in OrderedSubsets,
       fileVer \in [DirNames -> 0..server], check \in BOOLEAN, sameDay \in BOOLEAN :
        LET ix == Index(r, file, fileKeys, fileVer, check, sameDay)
        IN /\ urls = ix.urls
           /\ sysOrder = << >>
           /\ data = ix.data
           /\ cached = ix.cached

\* ------------------------------------------------------- the cache document
SongFields == {"url", "title", "size", "author", "md5"}

\* Song.cache(): the song's __dict__.
Song_cache(song) == [f \in SongFields |-> song[f]]

\* Song(**song)
Song_init(doc) ==
    [url |-> doc.url, title |-> doc.title, size |-> doc.size, author |-> doc.author,
     md5 |-> doc.md5]

\* Mutant: only the first song of a game is serialised.
System_cache_FirstSong(sys) ==
    [url |-> sys.url, version |-> sys.version,
     games |-> [i \in 1..Len(sys.titles) |->
                  [title |-> sys.titles[i].title,
                   songs |-> << Song_cache(sys.titles[i].songs[1]) >>]]]

\* vgmusic/vgmusic.py System.cache, lines 177-183.
System_cache(sys) ==
    [url |-> sys.url, version |-> sys.version,
     games |-> [i \in 1..Len(sys.titles) |->
                  [title |-> sys.titles[i].title,
                   songs |-> [j \in 1..Len(sys.titles[i].songs) |->
                                Song_cache(sys.titles[i].songs[j])]]]]

\* games[title] = songs: the value of an existing key is replaced, a new key
\* goes to the end.
DictSet(games, title, songs) ==
    IF HasTitle(games, title)
    THEN [i \in 1..Len(games) |->
            IF games[i].title = title THEN [games[i] EXCEPT !.songs = songs]
            ELSE games[i]]
    ELSE Append(games, [title |-> title, songs |-> songs])

RECURSIVE LoadGames(_, _, _)
LoadGames(docs, i, games) ==
    IF i > Len(docs) THEN games
    ELSE LoadGames(docs, i + 1,
                   DictSet(games, docs[i].title,
                           [j \in 1..Len(docs[i].songs) |-> Song_init(docs[i].songs[j])]))

\* vgmusic/vgmusic.py System.__init__ with a cache, lines 143-157: url,
\* version and games come from the document; nothing is fetched.
System_from_cache(url, doc) ==
    [st |-> "pop", etag |-> 0, version |-> doc.version, url |-> doc.url,
     titles |-> LoadGames(doc.games, 1, << >>), dd |-> TRUE]

\* Mutant: a document is written for every name of self._urls.
API_cache_AllUrls(u, so, d) ==
    [keys |-> {"urls", "systems"}, urls |-> u,
     systems |-> [i \in 1..Len(u) |-> [name |-> u[i], doc |-> System_cache(d[u[i]])]]]

\* vgmusic/vgmusic.py API.cache, lines 365-368.  keys are the keys of the
\* document's top level.
API_cache(u, so, d) ==
    [keys |-> {"urls", "systems"}, urls |-> u,
     systems |-> [i \in 1..Len(so) |-> [name |-> so[i], doc |-> System_cache(d[so[i]])]]]

\* No document (None), which `if cache:` takes like an empty one.
NoCache == [keys |-> {}, urls |-> << >>, systems |-> << >>]

\* vgmusic/vgmusic.py API.__init__, lines 248-270: what the new API holds and
\* the requests its construction issues (net).
API_init(cache) ==
    IF cache.keys # {}
    THEN [urls |-> cache.urls,
          sysOrder |-> [i \in 1..Len(cache.systems) |-> cache.systems[i].name],
          data |-> [s \in DirNames |->
                      IF \E i \in 1..Len(cache.systems) : cache.systems[i].name = s
                      THEN System_from_cache("",
                               cache.systems[CHOOSE i \in 1..Len(cache.systems) :
                                                 cache.systems[i].name = s].doc)
                      ELSE Sentinel("v1", s)],
          net |-> 0]
    ELSE [urls |-> Directory, sysOrder |-> << >>,
          data |-> [s \in DirNames |-> Sentinel("v1", s)], net |-> 1]

\* v1: constructed from the live directory, or from the document an earlier
\* session's cache() returned.
V_Init ==
    \E keys \in OrderedSubsets, ver \in [DirNames -> 1..server], live \in BOOLEAN :
        LET before == [s \in DirNames |-> System_fetch(s, ver[s])]
            api == API_init(IF live THEN NoCache ELSE API_cache(Directory, keys, before))
        IN /\ urls = api.urls
           /\ sysOrder = api.sysOrder
           /\ data = api.data
           /\ cached = {}

\* ------------------------------------------------------------- file names
\* str.isalnum() on the characters of this model's titles.
IsAlnum(c) == c \notin {" ", "_", "-", "'", "!", "."}

\* vgmusic/vgmusic.py _escape_filename: the characters that are alphanumeric
\* or a space are kept, the others dropped.
escape_filename(name) == SelectSeq(name, LAMBDA c : IsAlnum(c) \/ c = " ")

\* re.sub("_{2,}", "_", ...): a run of underscores becomes one.
RECURSIVE Squeeze(_, _)
Squeeze(q, i) ==
    IF i > Len(q) THEN << >>
    ELSE IF q[i] = "_" /\ i > 1 /\ q[i - 1] = "_" THEN Squeeze(q, i + 1)
    ELSE << q[i] >> \o Squeeze(q, i + 1)

\* str.strip("_")
RECURSIVE Strip(_)
Strip(q) ==
    IF q = << >> THEN q
    ELSE IF Head(q) = "_" THEN Strip(Tail(q))
    ELSE IF q[Len(q)] = "_" THEN Strip(SubSeq(q, 1, Len(q) - 1))
    ELSE q

\* vgmusic/utils.py sanitize_filename: every character that is not
\* alphanumeric becomes "_", runs of "_" are squeezed, and "_" is stripped
\* from both ends.
sanitize_filename(name) ==
    Strip(Squeeze([i \in 1..Len(name) |-> IF IsAlnum(name[i]) THEN name[i] ELSE "_"], 1))

\* The file a song is saved to: f"{...(title)}.mid" in the destination
\* directory (public.py:214, vgmusic/vgmusic.py:348).
Filename(r, title) ==
    (IF r = "v1" THEN escape_filename(Chars(title)) ELSE sanitize_filename(Chars(title)))
        \o << ".mid" >>

\* The songs download() is called with in this model: two of them have the
\* same title.
DlSongs == {MkSong(1, "Battle"), MkSong(2, "Battle Theme"), MkSong(4, "Battle")}
DlUrls == {song.url : song \in DlSongs}
FileNames == {Filename(r, song.title) : r \in {"public", "v1"}, song \in DlSongs}

\* A file: whether it exists and the bytes it holds (the bytes of a song are
\* named by the song's url, 0 is no bytes).
NoFile == [exists |-> FALSE, bytes |-> 0]
File(b) == [exists |-> TRUE, bytes |-> b]
\* The bytes of a file that was in the directory before.
OldBytes == 99

\* No download was started.
NoDownload ==
    /\ files0 = files
    /\ batch = << >>
    /\ dlMax = 0
    /\ dlst = "idle"
    /\ dlq = << >>
    /\ dlrun = {}
    /\ dldone = << >>
    /\ dlfail = {}
    /\ dlreq = {}
    /\ dlskip = {}
    /\ dlwrote = {}

\* The catalog a session starts with.
CatalogInit ==
    /\ rev \in {"public", "legacy", "v1"}
    /\ server \in Versions
    /\ IF rev = "v1" THEN V_Init ELSE IndexInit(rev)
    /\ ThreadInit
    /\ errs = {}
    /\ saved = NoCache

\* The site answers every request and the destination directory is empty.
Init ==
    /\ CatalogInit
    /\ down = {}
    /\ bad = {}
    /\ files = [n \in FileNames |-> NoFile]
    /\ NoDownload

\* ------------------------------------------------------------------ search
GameEntries(s, g) ==
    [j \in 1..Len(g.songs) |-> [system |-> s, game |-> g.title, song |-> g.songs[j]]]

RECURSIVE SystemEntries(_, _, _)
SystemEntries(s, games, i) ==
    IF i > Len(games) THEN << >>
    ELSE GameEntries(s, games[i]) \o SystemEntries(s, games, i + 1)

\* The (system, game, song) triples the nested loops of search() visit over
\* the systems in `order`, skipping a system whose "titles" is None
\* (public.py:261) or that is no key of the dict iterated.
RECURSIVE Visit(_, _, _)
Visit(order, d, i) ==
    IF i > Len(order) THEN << >>
    ELSE (IF d[order[i]].st = "pop"
          THEN SystemEntries(order[i], d[order[i]].titles, 1)
          ELSE << >>) \o Visit(order, d, i + 1)

\* The dict search() iterates: self.data (public.py:260, vgmusic.py:222) or
\* self.systems (vgmusic/vgmusic.py:284).
SearchOrder(r, u, so) == IF r = "v1" THEN so ELSE u

\* The criteria functions search() is called with in this model.
Criteria == {"all", "battle", "nes"}
Crit(c, e) ==
    CASE c = "all" -> TRUE
      [] c = "battle" -> e.song.title = "Battle"
      [] c = "nes" -> e.system = "NES"

Songs(entries) == [i \in 1..Len(entries) |-> entries[i].song]

\* The triples search() visits, in the order it visits them.
Visited(r, u, so, d) == Visit(SearchOrder(r, u, so), d, 1)

\* ------------------------------------------------------- search_by_regex
\* A pattern: the literal lit, anchored at the start (^) when s and at the end
\* ($) when e.  An argument that is not passed is Omitted.
Pat(s, lit, e) == [given |-> TRUE, s |-> s, lit |-> lit, e |-> e]
Omitted == [given |-> FALSE, s |-> FALSE, lit |-> << >>, e |-> FALSE]
EmptyPat == Pat(FALSE, << >>, FALSE)

\* The pattern matches the characters of v that start after offset i.
MatchAt(p, v, i) ==
    /\ i + Len(p.lit) <= Len(v)
    /\ \A k \in 1..Len(p.lit) : v[i + k] = p.lit[k]
    /\ p.s => i = 0
    /\ p.e => i + Len(p.lit) = Len(v)

\* re.search(p, v): the offsets are tried from the left.
RECURSIVE ScanFrom(_, _, _)
ScanFrom(p, v, i) ==
    IF i > Len(v) THEN FALSE
    ELSE IF MatchAt(p, v, i) THEN TRUE
    ELSE ScanFrom(p, v, i + 1)

\* Mutant: re.match, which tries offset 0 only.
re_match(p, v) == MatchAt(p, v, 0)

re_search(p, v) == ScanFrom(p, v, 0)

\* regexes.pop("system", None) or "" (vgmusic/vgmusic.py:306-307); the padding
\* with "" (public.py:297-298).
OrEmpty(p) == IF p.given THEN p ELSE EmptyPat

\* A query: a pattern for the system name, the game title and the song fields
\* "title" and "author".
\* vgmusic/vgmusic.py:309-319: criteria() of search_by_regex.
V_RegexCrit(q, e) ==
    /\ re_search(OrEmpty(q.system), Chars(e.system))
    /\ re_search(OrEmpty(q.game), Chars(e.game))
    /\ \A f \in {"title", "author"} : q[f].given => re_search(q[f], Chars(e.song[f]))

\* public.py:297-308 (vgmusic.py:257-270): the three positional patterns
\* against (system, game, song[song_info_key]).
P_RegexCrit(q, e) ==
    LET key == IF q.author.given THEN "author" ELSE "title"
        regexes == << OrEmpty(q.system), OrEmpty(q.game), OrEmpty(q[key]) >>
        args == << Chars(e.system), Chars(e.game), Chars(e.song[key]) >>
    IN \A i \in 1..3 : re_search(regexes[i], args[i])

RegexCrit(r, q, e) == IF r = "v1" THEN V_RegexCrit(q, e) ELSE P_RegexCrit(q, e)

\* The patterns of this model.
SystemPats == {Omitted, Pat(FALSE, Chars("NES"), FALSE), Pat(TRUE, Chars("NES"), TRUE)}
GamePats == {Omitted, EmptyPat, Pat(FALSE, <<"e">>, FALSE)}
TitlePats == {Omitted, Pat(FALSE, Chars("Battle"), FALSE), Pat(TRUE, Chars("Battle"), TRUE),
              Pat(FALSE, Chars("Theme"), TRUE)}
AuthorPats == {Omitted, Pat(TRUE, <<"o">>, FALSE)}
Queries == [system : SystemPats, game : GamePats, title : TitlePats, author : AuthorPats]
NoQuery == [system |-> Omitted, game |-> Omitted, title |-> Omitted, author |-> Omitted]

\* public.py:294 (vgmusic.py:254): the most regexes a call may pass.
MaxRegexes == 3

\* The regexes a call passes.  v1 takes them as keywords.  public takes them
\* by position, (system, game, song field), so a pattern for the song field is
\* preceded by the two structural ones ("" to match any), and one song field
\* is matched per call (song_info_key): a second field pattern is a fourth
\* positional regex.
Regexes(r, q) ==
    IF r = "v1"
    THEN SelectSeq(<< q.system, q.game, q.title, q.author >>, LAMBDA p : p.given)
    ELSE << OrEmpty(q.system), OrEmpty(q.game) >>
            \o SelectSeq(<< q.title, q.author >>, LAMBDA p : p.given)

\* public.py:294-295 (vgmusic.py:254-255): `if len(regexes) > 3: raise
\* ValueError`; vgmusic/vgmusic.py search_by_regex has no such test.
TooMany(r, q) == r # "v1" /\ Len(Regexes(r, q)) > MaxRegexes

\* The queries the calls of search_by_regex between calls of get() use.
FewQueries ==
    {[NoQuery EXCEPT !.title = Pat(TRUE, Chars("Battle"), TRUE)],
     [NoQuery EXCEPT !.system = Pat(FALSE, Chars("NES"), FALSE)]}

\* ----------------------------------------------------------------- get()
IsSentinel(r, info) ==
    CASE r = "public" -> info.st = "none"
      [] r = "legacy" -> info.etag = 0
      [] OTHER -> info.st = "absent"

\* What a call hands back: a pool task nothing, __getitem__ the entry of the
\* dict (public.py:165, vgmusic.py:302, vgmusic/vgmusic.py:383).
Out(m, info) ==
    IF m = "task" THEN "done"
    ELSE IF IsSentinel(rev, info) THEN "sentinel" ELSE "section"

\* Thread t's call ends.
Finish(t, m, s, out, via) ==
    /\ pc' = [pc EXCEPT ![t] = "idle"]
    /\ arg' = [arg EXCEPT ![t] = Unknown]
    /\ mode' = [mode EXCEPT ![t] = "get"]
    /\ resp' = [resp EXCEPT ![t] = 0]
    /\ last' = [n |-> last.n + 1, op |-> m, arg |-> s, q |-> << >>, out |-> out,
                via |-> via, songs |-> << >>]

\* session.get(url) of the section page is issued (public.py:141,
\* vgmusic.py:290, vgmusic/vgmusic.py:162); the thread waits for the response.
\* When the site cannot be reached session.get raises, and nothing in the API
\* catches it.
Request(t, m, s) ==
    /\ fetches' = [fetches EXCEPT ![s] = @ + 1]
    /\ IF s \in down
       THEN Finish(t, m, s, "ConnectionError", "")
       ELSE /\ pc' = [pc EXCEPT ![t] = "cmp"]
            /\ arg' = [arg EXCEPT ![t] = s]
            /\ mode' = [mode EXCEPT ![t] = m]
            /\ resp' = [resp EXCEPT ![t] = server]
            /\ last' = last

\* Mutant: the info is looked up with a default (dict.get) and no KeyError
\* is raised for a name that is no key.
P_Enter_Default(t, m, s) ==
    IF s \in cached
    THEN Finish(t, m, s, Out(m, data[s]), "cached") /\ fetches' = fetches
    ELSE IF s \notin SeqSet(urls)
    THEN Finish(t, m, s, "sentinel", "") /\ fetches' = fetches
    ELSE Request(t, m, s)

\* public.py _cache, lines 135-141: return if the system is in _cached, else
\* look its info up and request its page.
P_Enter(t, m, s) ==
    IF s \in cached
    THEN Finish(t, m, s, Out(m, data[s]), "cached") /\ fetches' = fetches
    ELSE IF s \notin SeqSet(urls)
    THEN Finish(t, m, s, "KeyError", "") /\ fetches' = fetches
    ELSE Request(t, m, s)

\* src/vgmusic.py __getitem__, lines 286-290, and _is_cached.
L_Enter(t, m, s) ==
    IF s \notin SeqSet(urls)
    THEN Finish(t, m, s, "KeyError", "") /\ fetches' = fetches
    ELSE IF s \in cached /\ data[s].titles # << >>
    THEN Finish(t, m, s, Out(m, data[s]), "cached") /\ fetches' = fetches
    ELSE Request(t, m, s)

\* vgmusic/vgmusic.py __getitem__, lines 379-381, _force_cache, line 398, and
\* System.__init__ up to line 162.
V_Enter(t, m, s) ==
    IF s \in SeqSet(sysOrder)
    THEN Finish(t, m, s, Out(m, data[s]), "cached") /\ fetches' = fetches
    ELSE IF s \notin SeqSet(urls)
    THEN Finish(t, m, s, "KeyError", "") /\ fetches' = fetches
    ELSE Request(t, m, s)

\* A caller indexes the API with a name: api[s].
Get(t, s) ==
    /\ pc[t] = "idle"
    /\ calls < MaxCalls
    /\ calls' = calls + 1
    /\ CASE rev = "public" -> P_Enter(t, "get", s)
         [] rev = "legacy" -> L_Enter(t, "get", s)
         [] OTHER -> V_Enter(t, "get", s)
    /\ UNCHANGED << errs, xvars, rev, server, urls, sysOrder, data, cached, pool, fca, fcaFrom >>

\* Mutant: the page is parsed whatever its ETag.
IsOutdated_Always(info, etag) == TRUE

\* response.headers["ETag"] != system_info.get("_etag")
IsOutdated(info, etag) == info.etag # etag

\* Mutant: the updated info is stored under a key that is deleted first, which
\* moves it to the end of self.data.
P_Keys_MoveToEnd(u, s) == Append(SelectSeq(u, LAMBDA n : n # s), s)

\* public.py:151 and 153: the info dict of the system is changed in place, so
\* the keys of self.data keep their order.
P_Keys(u, s) == u

\* public.py _cache, lines 143-153 and 157-158: the response is there.
P_Compare(t) ==
    /\ rev = "public"
    /\ pc[t] = "cmp"
    /\ IF IsOutdated(data[arg[t]], resp[t])
       THEN /\ data' = [data EXCEPT ![arg[t]] = P_Update(@, arg[t], resp[t])]
            /\ urls' = P_Keys(urls, arg[t])
            /\ pc' = [pc EXCEPT ![t] = "add"]
            /\ UNCHANGED << arg, mode, resp, last >>
       ELSE /\ Finish(t, mode[t], arg[t], Out(mode[t], data[arg[t]]), "uptodate")
            /\ UNCHANGED << data, urls >>
    /\ UNCHANGED << errs, xvars, rev, server, sysOrder, cached, fetches, calls, pool,
                    fca, fcaFrom >>

\* src/vgmusic.py __getitem__, lines 292-296 and 299-302; an exception of
\* _parse_song_table reaches the caller.
L_Compare(t) ==
    /\ rev = "legacy"
    /\ pc[t] = "cmp"
    /\ IF IsOutdated(data[arg[t]], resp[t])
       THEN /\ data' = [data EXCEPT ![arg[t]] = L_Update(@, arg[t], resp[t])]
            /\ IF L_Raises(data[arg[t]], arg[t], resp[t]) = ""
               THEN /\ pc' = [pc EXCEPT ![t] = "add"]
                    /\ UNCHANGED << arg, mode, resp, last >>
               ELSE Finish(t, mode[t], arg[t],
                           L_Raises(data[arg[t]], arg[t], resp[t]), "")
       ELSE /\ Finish(t, mode[t], arg[t], Out(mode[t], data[arg[t]]), "uptodate")
            /\ data' = data
    /\ UNCHANGED << errs, xvars, rev, server, urls, sysOrder, cached, fetches, calls, pool,
                    fca, fcaFrom >>

\* self._cached.add(system), then back in the caller: public.py:155 and 165,
\* vgmusic.py:297 and 302.
Add(t) ==
    /\ pc[t] = "add"
    /\ cached' = cached \cup {arg[t]}
    /\ Finish(t, mode[t], arg[t], Out(mode[t], data[arg[t]]), "parsed")
    /\ UNCHANGED << errs, xvars, rev, server, urls, sysOrder, data, fetches, calls, pool,
                    fca, fcaFrom >>

\* Mutant: self.systems is assigned a new dict that holds the one system.
V_Insert_NewDict(so, s) == << s >>

\* self.systems[system] = ...: a new key goes to the end of the dict, an
\* existing key keeps its place.
V_Insert(so, s) == IF s \in SeqSet(so) THEN so ELSE Append(so, s)

\* vgmusic/vgmusic.py System.__init__, lines 163-168, the assignment in
\* _force_cache, line 398, and the return, line 383.
V_Store(t) ==
    /\ rev = "v1"
    /\ pc[t] = "cmp"
    /\ data' = [data EXCEPT ![arg[t]] = System_fetch(arg[t], resp[t])]
    /\ sysOrder' = V_Insert(sysOrder, arg[t])
    /\ Finish(t, mode[t], arg[t], Out(mode[t], data'[arg[t]]), "parsed")
    /\ UNCHANGED << errs, xvars, rev, server, urls, cached, fetches, calls, pool, fca, fcaFrom >>

\* ------------------------------------------------------- force_cache_all()
\* public.py:235-236: one _cache task per key of self.data is submitted.
FcaStart ==
    /\ rev = "public"
    /\ fca = "idle"
    /\ fca' = "running"
    /\ pool' = urls
    /\ fcaFrom' = << data, cached, urls >>
    /\ UNCHANGED << errs, xvars, rev, server, urls, sysOrder, data, cached, pc, arg, mode,
                    resp, fetches, calls, last >>

\* A pool thread takes the next task of the queue and runs _cache(system).
TaskTake(t) ==
    /\ rev = "public"
    /\ pc[t] = "idle"
    /\ pool # << >>
    /\ pool' = Tail(pool)
    /\ P_Enter(t, "task", Head(pool))
    /\ errs' = IF last'.n # last.n /\ last'.out = "ConnectionError"
               THEN errs \cup {Head(pool)} ELSE errs
    /\ UNCHANGED << xvars, rev, server, urls, sysOrder, data, cached, calls, fca, fcaFrom >>

\* public.py:237-238 and the exit of the with block: every future is done;
\* future.result() raises what a task raised.
FcaJoin ==
    /\ fca = "running"
    /\ pool = << >>
    /\ \A t \in Threads : mode[t] = "task" => pc[t] = "idle"
    /\ fca' = IF errs = {} THEN "done" ELSE "raised"
    /\ UNCHANGED << errs, xvars, rev, server, urls, sysOrder, data, cached, pc, arg, mode,
                    resp, fetches, calls, pool, fcaFrom, last >>

\* ------------------------------------------------ cache() and System()
\* api.cache(): vgmusic/vgmusic.py:359-368.
Cache ==
    /\ rev = "v1"
    /\ calls < MaxCalls
    /\ calls' = calls + 1
    /\ saved' = API_cache(urls, sysOrder, data)
    /\ last' = [n |-> last.n + 1, op |-> "cache", arg |-> "", q |-> << >>,
                out |-> "document", via |-> "", songs |-> << >>]
    /\ UNCHANGED << rev, server, urls, sysOrder, data, cached, pc, arg, mode, resp,
                    fetches, pool, fca, fcaFrom, errs, down, dvars >>

\* The keys System.__init__ reads from a cache document.
Required == {"url", "version", "games"}

\* A document an earlier session saved for system s with some keys removed.
\* The fields of the keys removed are not read.
Partial(s, ks) == [keys |-> ks, doc |-> System_cache(System_fetch(s, server))]

\* vgmusic/vgmusic.py System.__init__, lines 143-167.  `if cache:` is false
\* for a document without keys, and the page of self.url is requested (net);
\* otherwise cache["url"], cache["version"] and cache["games"] are read, and
\* a key that is missing raises KeyError.  The request for an empty url (the
\* one API.__init__ passes, line 257) cannot be sent.
System_new(url, c) ==
    IF c.keys = {}
    THEN [out |-> IF url = "" THEN "MissingSchema" ELSE "section", net |-> url # ""]
    ELSE IF Required \ c.keys # {}
    THEN [out |-> "KeyError", net |-> FALSE]
    ELSE [out |-> "section", net |-> FALSE]

\* System(url, cache=document) is called.
SystemNew(url, s, ks) ==
    /\ rev = "v1"
    /\ calls < MaxCalls
    /\ calls' = calls + 1
    /\ fetches' = IF System_new(url, Partial(s, ks)).net
                  THEN [fetches EXCEPT ![url] = @ + 1] ELSE fetches
    /\ last' = [n |-> last.n + 1, op |-> "System", arg |-> url, q |-> Partial(s, ks),
                out |-> System_new(url, Partial(s, ks)).out,
                via |-> IF System_new(url, Partial(s, ks)).net THEN "fetch" ELSE "cache",
                songs |-> << >>]
    /\ UNCHANGED << errs, xvars, rev, server, urls, sysOrder, data, cached, pc, arg, mode,
                    resp, pool, fca, fcaFrom >>

\* defaultdict(list).__getitem__: a key that is missing is inserted with a
\* new empty list, which is the value returned.
DictGet(games, title) ==
    IF HasTitle(games, title) THEN games
    ELSE Append(games, [title |-> title, songs |-> << >>])

\* The game titles a caller looks up: one the NES pages list and one no page
\* lists.
Lookups == {"Zelda", "Kirby"}

\* api.systems[s][title]: vgmusic/vgmusic.py System.__getitem__, lines
\* 190-191, returns self.games[game], and self.games is the defaultdict of
\* line 150 whether the section was fetched or loaded from a document.
SystemGetitem(s, title) ==
    /\ rev = "v1"
    /\ s \in SeqSet(sysOrder)
    /\ calls < MaxCalls
    /\ calls' = calls + 1
    /\ data' = [data EXCEPT ![s].titles = DictGet(@, title)]
    /\ last' = [n |-> last.n + 1, op |-> "game", arg |-> s, q |-> [title |-> title],
                out |-> "list", via |-> "", songs |-> << >>]
    /\ UNCHANGED << errs, xvars, rev, server, urls, sysOrder, cached, pc, arg, mode,
                    resp, fetches, pool, fca, fcaFrom >>

\* ----------------------------------------------------------- force_cache()
\* vgmusic/vgmusic.py force_cache, line 372: the loop over self._urls starts.
V_ForceStart ==
    /\ rev = "v1"
    /\ fca = "idle"
    /\ pc[1] = "idle"
    /\ fca' = "running"
    /\ pool' = urls
    /\ fcaFrom' = << data, cached, urls >>
    /\ UNCHANGED << errs, xvars, rev, server, urls, sysOrder, data, cached, pc, arg, mode,
                    resp, fetches, calls, last >>

\* vgmusic/vgmusic.py force_cache, line 373: self[system] for the next name;
\* an exception of the request leaves the loop and the call.
V_ForceNext ==
    /\ rev = "v1"
    /\ fca = "running"
    /\ pc[1] = "idle"
    /\ pool # << >>
    /\ V_Enter(1, "task", Head(pool))
    /\ IF last'.n # last.n /\ last'.out = "ConnectionError"
       THEN /\ errs' = errs \cup {Head(pool)}
            /\ pool' = << >>
            /\ fca' = "raised"
       ELSE /\ errs' = errs
            /\ pool' = Tail(pool)
            /\ fca' = fca
    /\ UNCHANGED << xvars, rev, server, urls, sysOrder, data, cached, calls, fcaFrom >>

\* Mutant: the loop indexes the API (self[system]) instead of reading the
\* dict, so every section that is still a sentinel is fetched on the way.
Search_Lazy(c) ==
    LET now == [s \in DirNames |->
                  IF IsSentinel(rev, data[s]) THEN System_fetch(s, server) ELSE data[s]]
    IN /\ calls < MaxCalls
       /\ calls' = calls + 1
       /\ data' = now
       /\ fetches' = [s \in DirNames |->
                        IF IsSentinel(rev, data[s]) THEN fetches[s] + 1 ELSE fetches[s]]
       /\ last' = [n |-> last.n + 1, op |-> "search", arg |-> c, q |-> << >>,
                   out |-> "found", via |-> "",
                   songs |-> Songs(SelectSeq(Visited(rev, urls, urls, now),
                                               LAMBDA e : Crit(c, e)))]
       /\ UNCHANGED << errs, xvars, rev, server, urls, sysOrder, cached, pc, arg, mode, resp,
                       pool, fca, fcaFrom >>

\* search(criteria): public.py:258-267, vgmusic.py:220-228,
\* vgmusic/vgmusic.py:282-290.
Search(c) ==
    /\ calls < MaxCalls
    /\ calls' = calls + 1
    /\ last' = [n |-> last.n + 1, op |-> "search", arg |-> c, q |-> << >>,
                out |-> "found", via |-> "",
                songs |-> Songs(SelectSeq(Visited(rev, urls, sysOrder, data),
                                            LAMBDA e : Crit(c, e)))]
    /\ UNCHANGED << errs, xvars, rev, server, urls, sysOrder, data, cached, pc, arg, mode,
                    resp, fetches, pool, fca, fcaFrom >>

\* search_by_regex: public.py:291-310, vgmusic.py:252-272,
\* vgmusic/vgmusic.py:306-321.
SearchByRegex(q) ==
    /\ calls < MaxCalls
    /\ calls' = calls + 1
    /\ last' = [n |-> last.n + 1, op |-> "regex", arg |-> "", q |-> q,
                out |-> IF TooMany(rev, q) THEN "ValueError" ELSE "found",
                via |-> "",
                songs |-> IF TooMany(rev, q) THEN << >>
                          ELSE Songs(SelectSeq(Visited(rev, urls, sysOrder, data),
                                               LAMBDA e : RegexCrit(rev, q, e)))]
    /\ UNCHANGED << errs, xvars, rev, server, urls, sysOrder, data, cached, pc, arg, mode,
                    resp, fetches, pool, fca, fcaFrom >>

\* -------------------------------------------------------------- download
\* Workers a pool may be given.
MaxWorkers == 2
\* ThreadPoolExecutor() without max_workers (public.py:220): min(32, cpus + 4)
\* workers, more than the songs of a batch of this model.
DefaultWorkers == 5

\* The lists of songs a call passes: songs of DlSongs, none twice.
Batches ==
    {b \in UNION {[1..n -> DlSongs] : n \in 0..Cardinality(DlSongs)} :
        \A i, j \in 1..Len(b) : i # j => b[i] # b[j]}

\* The file the i-th song of the batch is saved to.
Name(i) == Filename(rev, batch[i].title)

Indexes(b) == [i \in 1..Len(b) |-> i]

\* public.py:212-218: the songs whose file is not there are to be downloaded,
\* the others are logged and left out.
P_ToDownload(b, f) ==
    SelectSeq(Indexes(b), LAMBDA i : ~f[Filename("public", b[i].title)].exists)

\* Mutant: the pool starts a task whenever one is queued.
PoolFree_Always(run, max) == TRUE

\* ThreadPoolExecutor(max_workers=max): a queued task starts when fewer than
\* max workers are busy.
PoolFree(run, max) == Cardinality(run) < max

\* download_songs(songs, path) (public.py:196-224) and
\* download(songs, to, max_requests) (vgmusic/vgmusic.py:323-350) up to the
\* point every task is submitted.
DlCall(b, mx) ==
    /\ dlst = "idle"
    /\ rev \in {"public", "v1"}
    /\ batch' = b
    /\ files0' = files
    /\ dlst' = "running"
    /\ IF rev = "public"
       THEN /\ dlMax' = DefaultWorkers
            /\ dlq' = P_ToDownload(b, files)
            /\ dlskip' = {i \in 1..Len(b) : files[Filename("public", b[i].title)].exists}
       ELSE /\ dlMax' = mx
            /\ dlq' = Indexes(b)
            /\ dlskip' = {}
    /\ UNCHANGED << rev, server, urls, sysOrder, data, cached, pc, arg, mode, resp,
                    fetches, calls, pool, fca, fcaFrom, last, errs, down, saved,
                    bad, files, dlrun, dldone, dlfail, dlreq, dlwrote >>

\* A worker takes the next task: session.get(url) is issued (public.py:189,
\* vgmusic/vgmusic.py:101).
DlStart ==
    /\ dlst \in {"running", "unwinding"}
    /\ dlq # << >>
    /\ PoolFree(dlrun, dlMax)
    /\ dlrun' = dlrun \cup {Head(dlq)}
    /\ dlreq' = dlreq \cup {Head(dlq)}
    /\ dlq' = Tail(dlq)
    /\ UNCHANGED << rev, server, urls, sysOrder, data, cached, pc, arg, mode, resp,
                    fetches, calls, pool, fca, fcaFrom, last, errs, down, saved,
                    bad, files, files0, batch, dlMax, dlst, dldone, dlfail,
                    dlskip, dlwrote >>

\* public.py _download_song, lines 188-194: the worker writes the response
\* to the file; when the request fails the task raises before the file is
\* opened.
P_DlDone(i) ==
    /\ rev = "public"
    /\ i \in dlrun
    /\ dlrun' = dlrun \ {i}
    /\ IF batch[i].url \in bad
       THEN /\ dlfail' = dlfail \cup {i}
            /\ UNCHANGED << files, dlwrote >>
       ELSE /\ files' = [files EXCEPT ![Name(i)] = File(batch[i].url)]
            /\ dlwrote' = dlwrote \cup {i}
            /\ dlfail' = dlfail
    /\ UNCHANGED << rev, server, urls, sysOrder, data, cached, pc, arg, mode, resp,
                    fetches, calls, pool, fca, fcaFrom, last, errs, down, saved,
                    bad, files0, batch, dlMax, dlst, dlq, dldone, dlreq, dlskip >>

\* vgmusic/vgmusic.py Song.download, lines 98-116: the worker returns the
\* bytes or raises; the future is completed.
V_DlDone(i) ==
    /\ rev = "v1"
    /\ i \in dlrun
    /\ dlrun' = dlrun \ {i}
    /\ dldone' = Append(dldone, i)
    /\ dlfail' = IF batch[i].url \in bad THEN dlfail \cup {i} ELSE dlfail
    /\ UNCHANGED << rev, server, urls, sysOrder, data, cached, pc, arg, mode, resp,
                    fetches, calls, pool, fca, fcaFrom, last, errs, down, saved,
                    bad, files, files0, batch, dlMax, dlst, dlq, dlreq, dlskip,
                    dlwrote >>

\* vgmusic/vgmusic.py download, lines 352-357: the caller takes the oldest
\* completed future, opens the file for writing (which empties it) and writes
\* future.result(); an exception of the task is raised by result() and leaves
\* the loop.
V_DlWrite ==
    /\ rev = "v1"
    /\ dlst = "running"
    /\ dldone # << >>
    /\ dldone' = Tail(dldone)
    /\ IF Head(dldone) \in dlfail
       THEN /\ files' = [files EXCEPT ![Name(Head(dldone))] = File(0)]
            /\ dlst' = "unwinding"
            /\ dlwrote' = dlwrote
       ELSE /\ files' = [files EXCEPT ![Name(Head(dldone))] =
                                         File(batch[Head(dldone)].url)]
            /\ dlwrote' = dlwrote \cup {Head(dldone)}
            /\ dlst' = dlst
    /\ UNCHANGED << rev, server, urls, sysOrder, data, cached, pc, arg, mode, resp,
                    fetches, calls, pool, fca, fcaFrom, last, errs, down, saved,
                    bad, files0, batch, dlMax, dlq, dlrun, dlfail, dlreq, dlskip >>

\* Mutant: the pool is shut down without waiting (shutdown(wait=False)), so
\* the call ends while tasks run or wait in the queue.
DlJoin_NoWait ==
    /\ dlst \in {"running", "unwinding"}
    /\ dlst = "running" => dldone = << >>
    /\ dlst' = IF dlst = "unwinding" \/ dlfail # {} THEN "raised" ELSE "returned"
    /\ UNCHANGED << rev, server, urls, sysOrder, data, cached, pc, arg, mode, resp,
                    fetches, calls, pool, fca, fcaFrom, last, errs, down, saved,
                    bad, files, files0, batch, dlMax, dlq, dlrun, dldone, dlfail,
                    dlreq, dlskip, dlwrote >>

\* The exit of the with block waits for every task (public.py:220-228,
\* vgmusic/vgmusic.py:341-357); the call returns, or raises what
\* future.result() raised.
DlJoin ==
    /\ dlst \in {"running", "unwinding"}
    /\ dlq = << >>
    /\ dlrun = {}
    /\ dlst = "running" => dldone = << >>
    /\ dlst' = IF dlst = "unwinding" \/ dlfail # {} THEN "raised" ELSE "returned"
    /\ UNCHANGED << rev, server, urls, sysOrder, data, cached, pc, arg, mode, resp,
                    fetches, calls, pool, fca, fcaFrom, last, errs, down, saved,
                    bad, files, files0, batch, dlMax, dlq, dlrun, dldone, dlfail,
                    dlreq, dlskip, dlwrote >>

\* ---------------------------------------------------------- Song.download
\* What a response's content is checked by: len(data) and
\* hashlib.md5(data).hexdigest().
Contents(song) ==
    [size : {song.size, song.size - 1}, md5 : {song.md5, "x"}]

\* vgmusic/vgmusic.py Song.download, lines 104-116: with verify the size and
\* the digest of the content are compared with the song's, and ValueError is
\* raised unless both are equal; otherwise the content is returned.
Song_download(song, content, verify) ==
    IF verify /\ ~((content.size = song.size) /\ (content.md5 = song.md5))
    THEN "ValueError"
    ELSE "bytes"

\* song.download(session, verify) is called and the site answers with content.
SongDownload(song, content, verify) ==
    /\ rev = "v1"
    /\ calls < MaxCalls
    /\ calls' = calls + 1
    /\ last' = [n |-> last.n + 1, op |-> "download", arg |-> song.title,
                q |-> [song |-> song, content |-> content, verify |-> verify],
                out |-> Song_download(song, content, verify), via |-> "",
                songs |-> << >>]
    /\ UNCHANGED << errs, xvars, rev, server, urls, sysOrder, data, cached, pc, arg, mode,
                    resp, fetches, pool, fca, fcaFrom >>

\* ------------------------------------------------------ System.total_songs
\* len(str): the number of characters.
StrLen(str) == Len(Chars(str))

\* vgmusic/vgmusic.py System.total_songs, line 188: sum(len(game) for game in
\* self).  Iterating the System gives the keys of self.games (__iter__, line
\* 197), so len() is taken of each game title.
RECURSIVE System_total_songs(_, _)
System_total_songs(games, i) ==
    IF i > Len(games) THEN 0
    ELSE StrLen(games[i].title) + System_total_songs(games, i + 1)

\* api.systems[s].total_songs() is called on a section the catalog holds.
TotalSongs(s) ==
    /\ rev = "v1"
    /\ s \in SeqSet(sysOrder)
    /\ calls < MaxCalls
    /\ calls' = calls + 1
    /\ last' = [n |-> last.n + 1, op |-> "total_songs", arg |-> s,
                q |-> [total |-> System_total_songs(data[s].titles, 1)],
                out |-> "int", via |-> "", songs |-> << >>]
    /\ UNCHANGED << errs, xvars, rev, server, urls, sysOrder, data, cached, pc, arg, mode,
                    resp, fetches, pool, fca, fcaFrom >>

\* ------------------------------------------------------- the file name
\* The song titles whose file name is derived.
Titles == {"Battle", "Battle Theme", "Let's Go!"}

\* The file name of a song with this title is derived, as download_songs
\* (public.py:214) and download (vgmusic/vgmusic.py:348) do for each song.
FilenameOf(title) ==
    /\ rev \in {"public", "v1"}
    /\ calls < MaxCalls
    /\ calls' = calls + 1
    /\ last' = [n |-> last.n + 1, op |-> "filename", arg |-> title,
                q |-> [name |-> Filename(rev, title)],
                out |-> "str", via |-> "", songs |-> << >>]
    /\ UNCHANGED << errs, xvars, rev, server, urls, sysOrder, data, cached, pc, arg, mode,
                    resp, fetches, pool, fca, fcaFrom >>

\* ------------------------------------------------------- parsing the rows
\* A row that is neither a header nor blank and lacks a column of a song row.
Short == [k |-> "short", title |-> "", song |-> NoSong]

\* The row sequences a table is parsed from: songs under headers, a song row
\* before the first header, a row with a column missing, and no row at all.
RowSeqs ==
    { << Header("Zelda"), SongRow(3, "Theme") >>,
      << Header("Zelda"), Blank, SongRow(3, "Theme"), SongRow(1, "Battle") >>,
      << SongRow(3, "Theme"), Header("Zelda"), SongRow(1, "Battle") >>,
      << Header("Zelda"), Short, SongRow(3, "Theme") >>,
      << >> }

\* The row parser on a row that is taken for a song row.  vgmusic/vgmusic.py
\* _parse_row, line 224, unpacks row.find_all("td") into four names, which
\* raises ValueError for another number of cells; utils.py _parse_song zips
\* the headers with the cells and then deletes the "comments" entry (line
\* 146), which raises KeyError when that cell is missing.
ParseRow_raises(r, row) ==
    IF row.k # "short" THEN "" ELSE IF r = "v1" THEN "ValueError" ELSE "KeyError"

\* The row the loop stops at with an exception, 0 if it runs to the end.
RECURSIVE FirstRaise(_, _, _)
FirstRaise(r, rows, i) ==
    IF i > Len(rows) THEN 0
    ELSE IF rows[i].k \notin {"header", "blank"} /\ ParseRow_raises(r, rows[i]) # ""
    THEN i
    ELSE FirstRaise(r, rows, i + 1)

\* System._parse (vgmusic/vgmusic.py:199-220) and SongTable.parse
\* (utils.py:92-113) over the rows that follow the column headers: what the
\* call raises, or the games it leaves.
Parse(r, rows) ==
    IF FirstRaise(r, rows, 1) # 0
    THEN [out |-> ParseRow_raises(r, rows[FirstRaise(r, rows, 1)]), games |-> << >>]
    ELSE [out |-> "section", games |-> ParseRows(rows, 1, NoTitle, << >>)]

\* A section is constructed from the rows of a fetched page.
ParseTable(rows) ==
    /\ rev \in {"public", "v1"}
    /\ calls < MaxCalls
    /\ calls' = calls + 1
    /\ last' = [n |-> last.n + 1, op |-> "parse", arg |-> "",
                q |-> [rows |-> rows, games |-> Parse(rev, rows).games],
                out |-> Parse(rev, rows).out, via |-> "", songs |-> << >>]
    /\ UNCHANGED << errs, xvars, rev, server, urls, sysOrder, data, cached, pc, arg, mode,
                    resp, fetches, pool, fca, fcaFrom >>

\* ---------------------------------------------------------- construction
\* Nothing is constructed yet.
NotBuilt ==
    /\ urls = << >>
    /\ sysOrder = << >>
    /\ data = [s \in DirNames |-> Sentinel(rev, s)]
    /\ cached = {}

\* vgmusic/cli.py _parse, lines 51-57: the cache file is read with json.load;
\* only FileNotFoundError is caught, so a file that is not JSON raises
\* JSONDecodeError before API() is called.  The document of a file written by
\* an earlier session holds the sections that session fetched.
cli_parse(file, fileKeys, fileVer) ==
    IF file = "corrupt" THEN [out |-> "JSONDecodeError", cache |-> NoCache]
    ELSE IF file = "missing" THEN [out |-> "constructed", cache |-> NoCache]
    ELSE [out |-> "constructed",
          cache |-> API_cache(Directory,
                              SelectSeq(fileKeys, LAMBDA n : fileVer[n] > 0),
                              [s \in DirNames |->
                                  IF fileVer[s] > 0 THEN System_fetch(s, fileVer[s])
                                  ELSE Sentinel("v1", s)])]

\* The API is constructed over a cache file: API(index_path) (public.py),
\* API(data_file) (src/vgmusic.py), or _parse(cache_file) of the command line
\* (vgmusic/cli.py), which loads the document and calls API(cache=...).
Construct(file, fileKeys, fileVer, check, sameDay) ==
    /\ last.n = 0
    /\ NotBuilt
    /\ IF rev = "v1"
       THEN LET parsed == cli_parse(file, fileKeys, fileVer)
                api == API_init(parsed.cache)
            IN IF parsed.out = "constructed"
               THEN /\ urls' = api.urls
                    /\ sysOrder' = api.sysOrder
                    /\ data' = api.data
                    /\ cached' = cached
                    /\ last' = [NoCall EXCEPT !.n = 1, !.op = "init", !.arg = file,
                                              !.out = "constructed"]
               ELSE /\ last' = [NoCall EXCEPT !.n = 1, !.op = "init", !.arg = file,
                                              !.out = parsed.out]
                    /\ UNCHANGED << urls, sysOrder, data, cached >>
       ELSE LET ix == Index(rev, file, fileKeys, fileVer, check, sameDay)
            IN /\ urls' = ix.urls
               /\ sysOrder' = sysOrder
               /\ data' = ix.data
               /\ cached' = ix.cached
               /\ last' = [NoCall EXCEPT !.n = 1, !.op = "init", !.arg = file,
                                         !.out = "constructed"]
    /\ UNCHANGED << errs, xvars, rev, server, pc, arg, mode, resp, fetches, calls, pool,
                    fca, fcaFrom >>

\* ------------------------------------------------------- specifications
\* Threads call get(), force_cache_all() and the searches in any interleaving.
Next ==
    \/ \E t \in Threads, s \in Names : Get(t, s)
    \/ \E t \in Threads : P_Compare(t)
    \/ \E t \in Threads : L_Compare(t)
    \/ \E t \in Threads : V_Store(t)
    \/ \E t \in Threads : Add(t)
    \/ FcaStart
    \/ \E t \in Threads : TaskTake(t)
    \/ FcaJoin
    \/ \E c \in Criteria : Search(c)
    \/ \E q \in FewQueries : SearchByRegex(q)

Spec == Init /\ [][Next]_vars

\* One caller: every call ends before the next one starts.
SeqNext ==
    \/ \E s \in Names : Get(1, s)
    \/ P_Compare(1)
    \/ L_Compare(1)
    \/ V_Store(1)
    \/ Add(1)
    \/ \E c \in Criteria : Search(c)

SeqSpec == Init /\ [][SeqNext]_vars

\* search_by_regex over the catalogs a session starts with, for every query.
RegexNext == \E q \in Queries : SearchByRegex(q)

RegexSpec == Init /\ [][RegexNext]_vars

\* download over a catalog just constructed: some song urls fail, some files
\* are in the destination directory already.
DlInit ==
    /\ rev \in {"public", "v1"}
    /\ server = 1
    /\ urls = Directory
    /\ sysOrder = << >>
    /\ data = [s \in DirNames |-> Sentinel(rev, s)]
    /\ cached = {}
    /\ ThreadInit
    /\ errs = {}
    /\ saved = NoCache
    /\ down = {}
    /\ bad \in SUBSET DlUrls
    /\ files \in [FileNames -> {NoFile, File(OldBytes)}]
    /\ \A n \in FileNames :
          files[n].exists => \E song \in DlSongs : n = Filename(rev, song.title)
    /\ NoDownload

DlNext ==
    \/ \E b \in Batches, mx \in 1..MaxWorkers : DlCall(b, mx)
    \/ DlStart
    \/ \E i \in 1..Cardinality(DlSongs) : P_DlDone(i)
    \/ \E i \in 1..Cardinality(DlSongs) : V_DlDone(i)
    \/ V_DlWrite
    \/ DlJoin

DlSpec == DlInit /\ [][DlNext]_vars

\* force_cache_all (public) and force_cache (v1) when some systems' pages
\* cannot be fetched.
FcInit ==
    /\ CatalogInit
    /\ rev \in {"public", "v1"}
    /\ down \in SUBSET DirNames
    /\ bad = {}
    /\ files = [n \in FileNames |-> NoFile]
    /\ NoDownload

FcNext ==
    \/ FcaStart
    \/ \E t \in Threads : TaskTake(t)
    \/ \E t \in Threads : P_Compare(t)
    \/ \E t \in Threads : Add(t)
    \/ V_ForceStart
    \/ V_ForceNext
    \/ V_Store(1)
    \/ FcaJoin

FcSpec == FcInit /\ [][FcNext]_vars

\* One caller of the v1 API who also saves the catalog and loads sections
\* from documents.
DocInit == Init /\ rev = "v1"

DocNext ==
    \/ \E s \in Names : Get(1, s)
    \/ V_Store(1)
    \/ Cache
    \/ \E url \in DirNames \cup {""}, s \in DirNames, ks \in SUBSET Required :
          SystemNew(url, s, ks)
    \/ \E s \in DirNames, title \in Lookups : SystemGetitem(s, title)

DocSpec == DocInit /\ [][DocNext]_vars

\* A session from the construction on: the API is built over a cache file,
\* then one caller uses it.
LoadInit ==
    /\ rev \in {"public", "legacy", "v1"}
    /\ server \in Versions
    /\ NotBuilt
    /\ ThreadInit
    /\ errs = {}
    /\ saved = NoCache
    /\ down = {}
    /\ bad = {}
    /\ files = [n \in FileNames |-> NoFile]
    /\ NoDownload

\* An API object exists.
Built == last.n > 0 /\ last.out # "JSONDecodeError"

LoadNext ==
    \/ \E file \in {"missing", "corrupt", "ok"}, fileKeys \in OrderedSubsets,
          fileVer \in [DirNames -> 0..server], check \in BOOLEAN, sameDay \in BOOLEAN :
            Construct(file, fileKeys, fileVer, check, sameDay)
    \/ Built /\ \E s \in Names : Get(1, s)
    \/ P_Compare(1)
    \/ L_Compare(1)
    \/ V_Store(1)
    \/ Add(1)

LoadSpec == LoadInit /\ [][LoadNext]_vars

\* Calls on single objects and of the helper functions, over the catalogs a
\* session starts with.
UnitNext ==
    \/ \E song \in DlSongs, verify \in BOOLEAN :
          \E content \in Contents(song) : SongDownload(song, content, verify)
    \/ \E s \in DirNames : TotalSongs(s)
    \/ \E title \in Titles : FilenameOf(title)
    \/ \E rows \in RowSeqs : ParseTable(rows)

UnitSpec == Init /\ [][UnitNext]_vars

\* One caller of get() while force_cache_all (public) runs its tasks on the
\* pool's threads, or force_cache (v1) its loop.
FrameNext ==
    \/ \E s \in Names : Get(1, s)
    \/ \E t \in Threads : P_Compare(t)
    \/ L_Compare(1)
    \/ \E t \in Threads : Add(t)
    \/ V_Store(1)
    \/ FcaStart
    \/ \E t \in Threads : TaskTake(t)
    \/ V_ForceStart
    \/ V_ForceNext
    \/ FcaJoin

FrameSpec == Init /\ [][FrameNext]_vars

\* The two calls that hand their work to a thread pool, one after the other,
\* over a catalog just constructed: some systems' pages and some songs cannot
\* be fetched.
PoolInit ==
    /\ rev \in {"public", "v1"}
    /\ server = 1
    /\ urls = Directory
    /\ sysOrder = << >>
    /\ data = [s \in DirNames |-> Sentinel(rev, s)]
    /\ cached = {}
    /\ ThreadInit
    /\ errs = {}
    /\ saved = NoCache
    /\ down \in SUBSET DirNames
    /\ bad \in SUBSET DlUrls
    /\ files = [n \in FileNames |-> NoFile]
    /\ NoDownload

PoolNext ==
    \/ dlst \notin {"running", "unwinding"} /\ FcaStart
    \/ \E t \in Threads : TaskTake(t)
    \/ \E t \in Threads : P_Compare(t)
    \/ \E t \in Threads : Add(t)
    \/ FcaJoin
    \/ fca # "running" /\ \E b \in Batches, mx \in 1..MaxWorkers : DlCall(b, mx)
    \/ DlStart
    \/ \E i \in 1..Cardinality(DlSongs) : P_DlDone(i)
    \/ \E i \in 1..Cardinality(DlSongs) : V_DlDone(i)
    \/ V_DlWrite
    \/ DlJoin

PoolSpec == PoolInit /\ [][PoolNext]_vars

\* ------------------------------------------------------------------ claims
InFlight(s) == {t \in Threads : pc[t] = "cmp" /\ arg[t] = s}

\* C1: when several threads call get(X) for the same uncached section X at the
\* same time, one request for the page of X is issued: at no moment are two
\* requests for the same section in flight.
C1_OneFetchInFlight == \A s \in DirNames : Cardinality(InFlight(s)) <= 1

\* C2: in a sequential series of get() calls the page of a section is
\* requested at most once, whether the section started as a sentinel or was
\* loaded from a document whose ETag still matches the server's.
C2_AtMostOneFetch == \A s \in DirNames : fetches[s] <= 1

\* C3: when the response for a section carries the ETag the section already
\* stores, the call ends on the "up to date" branch: nothing is parsed and no
\* section changes.
C3_IdempotentRefetch ==
    [][\A t \in Threads :
         (pc[t] = "cmp" /\ pc'[t] # "cmp" /\ rev # "v1" /\ data[arg[t]].etag = resp[t])
            => (data' = data /\ urls' = urls /\ pc'[t] = "idle"
                /\ last'.via = "uptodate" /\ last'.arg = arg[t])]_vars

C3_Witness ==
    /\ last.op = "get" /\ last.via = "uptodate" /\ last.out = "section"
    /\ data[last.arg].titles # << >>

\* C4: in every state of the v1 catalog, API(cache=api.cache()) has the same
\* url keys in the same order, the same systems in the same order, for each of
\* them the same games mapping (titles and songs in order, field by field), and
\* its construction issues no request.
C4_RoundTrip ==
    rev = "v1" =>
        LET again == API_init(API_cache(urls, sysOrder, data))
        IN /\ again.urls = urls
           /\ again.sysOrder = sysOrder
           /\ \A s \in SeqSet(sysOrder) : again.data[s].titles = data[s].titles
           /\ again.net = 0

C4_Witness ==
    /\ rev = "v1" /\ last.op = "get" /\ last.via = "parsed"
    /\ Len(sysOrder) = Len(Directory) /\ sysOrder # urls
    /\ \E s \in SeqSet(sysOrder) : Len(data[s].titles) >= 2
    /\ API_init(API_cache(urls, sysOrder, data)).data = data

\* C5: get(system) of a known system never hands back a section that is still
\* in the sentinel state.
C5_NeverSentinel == last.op = "get" => last.out # "sentinel"

\* C6: get() with a name that is no key of the urls raises KeyError, issues no
\* request and changes neither the urls nor the sections; no thread is ever
\* inside get() with such a name.
C6_UnknownSystem ==
    [][/\ \A t \in Threads : pc'[t] # "idle" => arg'[t] \in SeqSet(urls')
       /\ (last'.n # last.n /\ last'.op = "get" /\ last'.arg \notin SeqSet(urls))
             => (last'.out = "KeyError"
                 /\ UNCHANGED << urls, sysOrder, data, cached, fetches >>)]_vars

C6_Witness == last.op = "get" /\ last.arg = Unknown /\ last.out = "KeyError"

SongIn(song, info) ==
    \E i \in 1..Len(info.titles) :
        \E j \in 1..Len(info.titles[i].songs) : info.titles[i].songs[j] = song

\* C7: search and search_by_regex issue no request and change no section: a
\* section that is a sentinel before the call is one after it, and every song
\* returned is a song of a section that was populated before the call.
C7_SearchNoEffects ==
    [][(last'.n # last.n /\ last'.op \in {"search", "regex"})
          => /\ UNCHANGED << urls, sysOrder, data, cached, fetches, pc, arg, pool >>
             /\ \A i \in 1..Len(last'.songs) :
                  \E s \in DirNames :
                      ~IsSentinel(rev, data[s]) /\ SongIn(last'.songs[i], data[s])]_vars

C7_Witness ==
    /\ last.op \in {"search", "regex"} /\ Len(last.songs) > 0
    /\ \E s \in DirNames : IsSentinel(rev, data[s])

\* C8: search returns the songs that pass the criteria ordered by the order
\* of the systems in the urls (the discovery order), then by game, then by
\* row, whatever the order the sections were fetched in.
C8_DiscoveryOrder ==
    last.op = "search" =>
        last.songs = Songs(SelectSeq(Visit(urls, data, 1), LAMBDA e : Crit(last.arg, e)))

\* What force_cache_all leaves in a section, from the state it was called in:
\* a section in _cached or with the server's ETag is left alone, any other is
\* replaced by the parse of the page.
FcaExpected(d0, c0, s) ==
    IF s \notin c0 /\ d0[s].etag # server THEN P_Update(d0[s], s, server) ELSE d0[s]

\* C9: whatever the interleaving of the tasks of force_cache_all, once it
\* returns the keys are in the order they were in, every section holds what
\* the state at the call and the pages determine, and a search returns the
\* list that this state determines.
C9_Deterministic ==
    fca = "done" =>
        LET d == [s \in DirNames |-> FcaExpected(fcaFrom[1], fcaFrom[2], s)]
        IN /\ urls = fcaFrom[3]
           /\ data = d
           /\ last.op = "search" =>
                last.songs = Songs(SelectSeq(Visit(fcaFrom[3], d, 1),
                                             LAMBDA e : Crit(last.arg, e)))

C9_Witness ==
    /\ fca = "done" /\ last.op = "search" /\ Len(last.songs) >= 2
    /\ \A s \in DirNames : data[s] # fcaFrom[1][s]

\* The pattern, when given, occurs in v at an offset its anchors allow.
Occurs(p, v) ==
    p.given =>
        \E i \in 0..(Len(v) - Len(p.lit)) :
            /\ SubSeq(v, i + 1, i + Len(p.lit)) = p.lit
            /\ p.s => i = 0
            /\ p.e => i + Len(p.lit) = Len(v)

\* C10: search_by_regex returns the songs visited for which every pattern
\* given occurs in its value (system name, game title, song field) as an
\* unanchored substring search finds it; a pattern that is omitted or empty
\* excludes nothing.
C10_RegexSemantics ==
    (last.op = "regex" /\ last.out = "found") =>
        /\ last.songs =
             Songs(SelectSeq(Visit(SearchOrder(rev, urls, sysOrder), data, 1),
                             LAMBDA e : /\ Occurs(last.q.system, Chars(e.system))
                                        /\ Occurs(last.q.game, Chars(e.game))
                                        /\ Occurs(last.q.title, Chars(e.song.title))
                                        /\ Occurs(last.q.author, Chars(e.song.author))))
        /\ (\A f \in DOMAIN last.q : last.q[f] \in {Omitted, EmptyPat})
              => last.songs = Songs(Visit(SearchOrder(rev, urls, sysOrder), data, 1))

\* ^Battle$ returned "Battle" and left "Battle Theme" out.
C10_Witness ==
    /\ last.op = "regex" /\ last.out = "found"
    /\ last.q = [NoQuery EXCEPT !.title = Pat(TRUE, Chars("Battle"), TRUE)]
    /\ \E s \in DirNames : SongIn(MkSong(2, "Battle Theme"), data[s])
    /\ \E i \in 1..Len(last.songs) : last.songs[i].title = "Battle"
    /\ \A i \in 1..Len(last.songs) : last.songs[i].title # "Battle Theme"

\* C11: a call of search_by_regex that passes more regexes than the maximum
\* raises the too-many-regexes error (ValueError), and no record is returned.
C11_Cap ==
    (last.op = "regex" /\ Len(Regexes(rev, last.q)) > MaxRegexes)
        => (last.out = "ValueError" /\ last.songs = << >>)

Ended == dlst \in {"returned", "raised"}

\* C12: when download returns, every song of the batch whose file was in the
\* destination directory at the call was skipped: the file holds what it held,
\* no request was issued for the song, and the song counts as skipped.
C12_Skip ==
    Ended =>
        \A i \in 1..Len(batch) :
            files0[Name(i)].exists
                => /\ files[Name(i)] = files0[Name(i)]
                   /\ i \notin dlreq
                   /\ i \in dlskip

\* C13: a download of a batch does not raise when the download of a song
\* fails, and every song that was not skipped and whose download works has
\* its bytes written to its file.
C13_Isolation ==
    Ended =>
        /\ dlst = "returned"
        /\ \A i \in 1..Len(batch) :
              (i \notin dlskip /\ batch[i].url \notin bad) => i \in dlwrote

\* C14: at every moment of a download the number of songs a worker is
\* downloading is at most the pool's max_workers, which is the max_requests
\* argument of download (vgmusic/vgmusic.py) and the executor's default in
\* public.py, whose download_songs takes no such argument.
C14_Bounded == Cardinality(dlrun) <= dlMax

\* The pool is full while songs wait in the queue.
C14_Witness ==
    /\ rev = "v1" /\ dlst = "running"
    /\ Cardinality(dlrun) = dlMax /\ dlMax = MaxWorkers
    /\ dlq # << >>

\* C15: when force_cache_all returns, no section of the catalog is a sentinel.
C15_AllPopulated ==
    fca = "done" => \A s \in SeqSet(urls) : ~IsSentinel(rev, data[s])

\* C16: force_cache_all (force_cache) does not raise when the fetch of a
\* section fails, and every other section it had to fetch is populated when
\* it ends.
C16_Continues ==
    fca \in {"done", "raised"} =>
        /\ fca = "done"
        /\ \A s \in SeqSet(urls) \ down :
              s \notin fcaFrom[2] => ~IsSentinel(rev, data[s])

\* The page the site serves for s has no song.
ZeroSongs(s) == s \in DirNames /\ Page(s, server).rows = << >>

\* C17: a get() that fetches a section whose page has no song returns it as a
\* populated section with no game, raises nothing, and the page of such a
\* section is requested once at most.
C17_ZeroSongs ==
    /\ (last.op = "get" /\ ZeroSongs(last.arg) /\ last.via # "cached")
          => /\ last.out = "section"
             /\ data[last.arg].titles = << >>
             /\ ~IsSentinel(rev, data[last.arg])
    /\ \A s \in DirNames : ZeroSongs(s) => fetches[s] <= 1

\* C18: the names the catalog has a url for are the keys of its sections.
C18_SameKeys == SeqSet(urls) = SeqSet(SearchOrder(rev, urls, sysOrder))

Populated == {s \in DirNames : ~IsSentinel(rev, data[s])}

\* The document d is the serialised form of the section sys.
IsDocOf(d, sys) ==
    /\ DOMAIN d = Required
    /\ d.url = sys.url
    /\ d.version = sys.version
    /\ Len(d.games) = Len(sys.titles)
    /\ \A i \in 1..Len(sys.titles) :
          /\ d.games[i].title = sys.titles[i].title
          /\ Len(d.games[i].songs) = Len(sys.titles[i].songs)
          /\ \A j \in 1..Len(sys.titles[i].songs) :
                \A f \in SongFields : d.games[i].songs[j][f] = sys.titles[i].songs[j][f]

\* C19: cache() returns a document with the keys "urls" and "systems"; "urls"
\* is self._urls, "systems" has one entry for each populated section and no
\* other, each its url, version and games (per title the song documents);
\* the call changes nothing in the catalog and requests nothing.
C19_CacheDocument ==
    [][(last'.n # last.n /\ last'.op = "cache")
          => /\ UNCHANGED << urls, sysOrder, data, cached, fetches, pc >>
             /\ saved'.keys = {"urls", "systems"}
             /\ saved'.urls = urls
             /\ Len(saved'.systems) = Cardinality(Populated)
             /\ {saved'.systems[i].name : i \in 1..Len(saved'.systems)} = Populated
             /\ \A i \in 1..Len(saved'.systems) :
                   IsDocOf(saved'.systems[i].doc, data[saved'.systems[i].name])]_vars

\* cache() was called with one section populated, with games, and one not.
C19_Witness ==
    /\ last.op = "cache"
    /\ Len(saved.systems) = 1
    /\ Len(saved.systems[1].doc.games) >= 2
    /\ Len(saved.urls) = Len(Directory)

\* C20: System() with a cache document that lacks one of the keys url,
\* version, games raises KeyError, and no page is requested.
C20_Malformed ==
    (last.op = "System" /\ last.q.keys # Required)
        => (last.out = "KeyError" /\ last.via # "fetch")

\* C21: constructing the catalog over a corrupt cache file succeeds, and the
\* catalog starts empty: every system of the directory is there as a sentinel
\* and nothing of the file is kept.
C21_CorruptLoad ==
    (last.op = "init" /\ last.arg = "corrupt")
        => /\ last.out = "constructed"
           /\ SeqSet(urls) = DirNames
           /\ \A s \in DirNames : data[s] = Sentinel(rev, s)
           /\ cached = {}

\* C22: Song.download with verify=True gives a true outcome exactly when the
\* size of the content equals the song's size and its digest the song's md5,
\* and on a mismatch it gives false and does not raise.
C22_Verify ==
    (last.op = "download" /\ last.q.verify)
        => /\ last.out # "ValueError"
           /\ last.out = "bytes"
                <=> (last.q.content.size = last.q.song.size
                       /\ last.q.content.md5 = last.q.song.md5)

\* The sum of the lengths of the song lists of a games mapping.
RECURSIVE SongCount(_, _)
SongCount(games, i) ==
    IF i > Len(games) THEN 0
    ELSE Len(games[i].songs) + SongCount(games, i + 1)

\* C23: total_songs() of a section is the sum over its games of the length
\* of the game's song list, whatever the titles, and 0 for a section without
\* games.
C23_TotalSongs ==
    last.op = "total_songs" => last.q.total = SongCount(data[last.arg].titles, 1)

\* The name the derivation rule gives: every character that is neither
\* alphanumeric nor a space becomes "_", runs of "_" become one, "_" is
\* trimmed at both ends, and ".mid" is appended.
DerivedName(name) ==
    Strip(Squeeze([i \in 1..Len(name) |->
                     IF IsAlnum(name[i]) \/ name[i] = " " THEN name[i] ELSE "_"], 1))
        \o << ".mid" >>

\* C24: the file name of a song is derived from its title by that rule;
\* spaces and alphanumerics are kept as they are.
C24_Filename ==
    last.op = "filename" => last.q.name = DerivedName(Chars(last.arg))

\* C25: when get() fetches a populated section again because the ETag of the
\* response differs from the stored one, the section is replaced wholesale:
\* afterwards its games are exactly those parsed from the new page, and its
\* stored ETag is the new one.
C25_ReplacedWholesale ==
    [][\A t \in Threads :
         (/\ pc[t] = "cmp" /\ pc'[t] # "cmp" /\ mode[t] = "get"
          /\ ~IsSentinel(rev, data[arg[t]])
          /\ data[arg[t]].etag # resp[t])
            => /\ data'[arg[t]].titles = SongTable_parse(Page(arg[t], resp[t]))
               /\ data'[arg[t]].etag = resp[t]]_vars

\* C26: in every populated section every game title maps to a list with at
\* least one song, after any series of operations; looking up a title the
\* section does not have adds no key to its games.
C26_NonEmptyLists ==
    \A s \in Populated :
        \A i \in 1..Len(data[s].titles) : data[s].titles[i].songs # << >>

\* A song row comes before the first header row.
SongBeforeHeader(rows) ==
    \E i \in 1..Len(rows) :
        /\ rows[i].k \notin {"header", "blank"}
        /\ \A j \in 1..(i - 1) : rows[j].k # "header"

\* The songs of the rows that follow the header of title g up to the next
\* header, in row order.
SongsUnder(rows, g) ==
    LET under(i) == /\ rows[i].k = "song"
                    /\ \E h \in 1..(i - 1) :
                          /\ rows[h] = Header(g)
                          /\ \A j \in (h + 1)..(i - 1) : rows[j].k # "header"
        picked == SelectSeq([i \in 1..Len(rows) |-> i], under)
    IN [n \in 1..Len(picked) |-> rows[picked[n]].song]

\* C27: constructing a section from fetched rows fails with ParseError when
\* a song row comes before any header row or when the row parser fails on a
\* row; otherwise every game holds the song rows under its header in row
\* order, and no song is stored under an absent (None) title.
C27_Parse ==
    last.op = "parse" =>
        /\ ~HasTitle(last.q.games, NoTitle)
        /\ IF SongBeforeHeader(last.q.rows) \/ (\E i \in 1..Len(last.q.rows) : last.q.rows[i] = Short)
           THEN last.out = "ParseError"
           ELSE /\ last.out = "section"
                /\ \A i \in 1..Len(last.q.games) :
                      last.q.games[i].songs = SongsUnder(last.q.rows, last.q.games[i].title)
                /\ \A i \in 1..Len(last.q.rows) :
                      last.q.rows[i].k = "header" /\ SongsUnder(last.q.rows, last.q.rows[i].title) # << >>
                          => HasTitle(last.q.games, last.q.rows[i].title)

\* C28: get(X) changes the state of section X only.  In every step, a section
\* whose state (sentinel, or populated with its games and marker) differs
\* afterwards is one a thread is inside get() or a force_cache_all task for;
\* the same holds for membership in _cached and in self.systems; the names
\* the catalog has urls for do not change.
C28_Frame ==
    [][/\ urls' = urls
       /\ \A s \in DirNames :
             (\/ data'[s] # data[s]
              \/ (s \in cached') # (s \in cached)
              \/ (s \in SeqSet(sysOrder')) # (s \in SeqSet(sysOrder)))
                => \E t \in Threads : pc[t] # "idle" /\ arg[t] = s]_vars

\* get(X) has populated X and another section is still a sentinel.
C28_Witness ==
    /\ last.op = "get" /\ last.via = "parsed"
    /\ ~IsSentinel(rev, data[last.arg])
    /\ \E s \in DirNames \ {last.arg} : IsSentinel(rev, data[s]) /\ fetches[s] = 0

\* C29: a get() of a section that stores no ETag (public.py and
\* src/vgmusic.py, the revisions that store one) treats the section as not
\* cached: the call ends having fetched and parsed the page, with the section
\* and without an error.
C29_MissingMarker ==
    [][(/\ rev # "v1"
        /\ last'.n # last.n /\ last'.op = "get"
        /\ last'.arg \in SeqSet(urls)
        /\ data[last'.arg].etag = 0)
          => (last'.via = "parsed" /\ last'.out = "section")]_vars

\* C30: force_cache_all() and download() have not returned, normally or with
\* an error, while a unit of work they submitted to the pool is running or
\* waiting, and a unit that fails cancels none of the others: when the call
\* has ended every unit submitted was started and has finished.
C30_FanIn ==
    /\ Ended =>
          /\ dlrun = {} /\ dlq = << >>
          /\ \A i \in 1..Len(batch) : i \notin dlskip => i \in dlreq
    /\ (rev = "public" /\ fca \in {"done", "raised"}) =>
          /\ pool = << >>
          /\ \A t \in Threads : mode[t] = "task" => pc[t] = "idle"
          /\ \A s \in SeqSet(fcaFrom[3]) : fetches[s] >= 1

\* Both calls ended with the error of one unit, and the other units ran to
\* their end: the section that can be fetched is populated and the songs that
\* can be downloaded are written.
C30_Witness ==
    /\ rev = "public"
    /\ fca = "raised" /\ errs # {}
    /\ \E s \in DirNames \ errs : ~IsSentinel(rev, data[s])
    /\ dlst = "raised" /\ Len(batch) = Cardinality(DlSongs)
    /\ Cardinality(dlfail) = 1 /\ Cardinality(dlwrote) = Len(batch) - 1

\* C31: within one download batch no path is written by the download of more
\* than one song: when the call has ended, two songs of the batch whose bytes
\* were written have different file names, and every file written holds the
\* bytes of the one song written to it.
C31_OneWriterPerPath ==
    Ended =>
        /\ \A i, j \in dlwrote : i # j => Name(i) # Name(j)
        /\ \A i \in dlwrote : files[Name(i)] = File(batch[i].url)

====
